---- MODULE Spec2Model ----
(***************************************************************************)
(* A model of src/app.py: the two CSV loaders (load_incidence_data,        *)
(* load_death_data), the metric selection and sex split of the module      *)
(* body, and the pivot of draw_heatmap.                                    *)
(*                                                                         *)
(* Text that the code inspects character by character (sex labels, country *)
(* labels, column names, year strings, cell texts) is a sequence of        *)
(* one-character strings; a Hangul syllable is written in romanised form:  *)
(*   "nam" = U+B0A8, "yeo" = U+C5EC, "nyeo" = U+B140, "ja" = U+C790,       *)
(*   "nyeon" = U+B144 (the year-unit marker), "han","guk","dae","min" the  *)
(*   syllables of the two accepted country names.                          *)
(* Labels the code only compares as wholes (cancer names, the age group)   *)
(* are plain strings.  Column names of the data frames are romanised:      *)
(*   balsaengyeondo = year, seongbyeol = sex, amjong = cancer,             *)
(*   yeonryeonggun = age group, jobalsaengryul = crude incidence rate,     *)
(*   samangryul = death rate, hangmok = item, gukga = country.             *)
(***************************************************************************)
EXTENDS Integers, Sequences, FiniteSets, TLC

(* ------------------------------ bounds ---------------------------------- *)
\* rows of a CSV file
MaxRows == 2
\* non-identifier columns of the wide mortality file
MaxCols == 2

(* --------------------------- str primitives ----------------------------- *)
Digits == <<"0", "1", "2", "3", "4", "5", "6", "7", "8", "9">>

IsDigitChar(c) == \E i \in 1..Len(Digits) : Digits[i] = c

DigitVal(c) == (CHOOSE i \in 1..Len(Digits) : Digits[i] = c) - 1

\* str.isnumeric / str.isdigit: non-empty and every character a digit
isnumeric(s) == Len(s) > 0 /\ \A i \in 1..Len(s) : IsDigitChar(s[i])

isdigit(s) == isnumeric(s)

\* int(s) of a digit string
RECURSIVE int(_)
int(s) == IF Len(s) = 0 THEN 0
          ELSE 10 * int(SubSeq(s, 1, Len(s) - 1)) + DigitVal(s[Len(s)])

\* pat in s
contains(s, pat) ==
    \E i \in 1..(Len(s) - Len(pat) + 1) : SubSeq(s, i, i + Len(pat) - 1) = pat

\* s.strip()
RECURSIVE lstrip(_)
lstrip(s) == IF Len(s) > 0 /\ s[1] = " " THEN lstrip(Tail(s)) ELSE s

RECURSIVE rstrip(_)
rstrip(s) == IF Len(s) > 0 /\ s[Len(s)] = " "
             THEN rstrip(SubSeq(s, 1, Len(s) - 1)) ELSE s

strip(s) == rstrip(lstrip(s))

\* s.replace(pat, '') for a non-empty pat
RECURSIVE replace(_, _)
replace(s, pat) ==
    IF Len(s) < Len(pat) THEN s
    ELSE IF SubSeq(s, 1, Len(pat)) = pat
         THEN replace(SubSeq(s, Len(pat) + 1, Len(s)), pat)
         ELSE <<s[1]>> \o replace(Tail(s), pat)

(* ------------------------------ labels ---------------------------------- *)
namja == <<"nam", "ja">>
yeoja == <<"yeo", "ja">>
namnyeo_jeonche == <<"nam", "nyeo", "jeon", "che">>
namyeo == <<"nam", "yeo">>

hanguk == <<"han", "guk">>
daehanminguk == <<"dae", "han", "min", "guk">>
ilbon == <<"il", "bon">>

yeonryeong_jeonche == "yeonryeong_jeonche"

\* exclude_cancer = ['모든암', '기타 암', '모든 암']
exclude_cancer == {"modeunam", "gita am", "modeun am"}

\* float NaN; every number of the model is >= 0
NaN == -1

(* ------------------------------ files ----------------------------------- *)
\* A CSV file on disk: whether it exists, the encodings under which
\* pd.read_csv parses it, and the table it then holds.
encodings == <<"euc-kr", "utf-8">>

None == [kind |-> "None", rows |-> <<>>]
Raised == [kind |-> "raise", rows |-> <<>>]
DataFrame(rows) == [kind |-> "df", rows |-> rows]

\* try: pd.read_csv(filename, encoding='euc-kr')
\* except: pd.read_csv(filename, encoding='utf-8')
\* TRUE when one of the two reads parses the file; otherwise the second
\* read raises out of the loader.
read_csv_parses(file) ==
    IF encodings[1] \in file.parses THEN TRUE
    ELSE encodings[2] \in file.parses

(* ------------------------- load_incidence_data -------------------------- *)
\* df = df[df['발생연도'].astype(str).str.isnumeric()]; astype(int)
inc_numeric_years(rows) ==
    LET kept == SelectSeq(rows, LAMBDA r : isnumeric(r.balsaengyeondo))
    IN  [i \in 1..Len(kept) |->
            [kept[i] EXCEPT !.balsaengyeondo = int(kept[i].balsaengyeondo)]]

\* df = df[~df['암종'].isin(exclude_cancer)]
inc_exclude(rows) == SelectSeq(rows, LAMBDA r : r.amjong \notin exclude_cancer)

\* the age filter left out
inc_all_ages_skipped(rows) == rows

\* df = df[df['연령군'] == '연령전체']
inc_all_ages(rows) ==
    SelectSeq(rows, LAMBDA r : r.yeonryeonggun = yeonryeong_jeonche)

load_incidence_data(file) ==
    IF ~file.exists THEN None
    ELSE IF ~read_csv_parses(file) THEN Raised
    ELSE DataFrame(inc_all_ages(inc_exclude(inc_numeric_years(file.table))))

(* --------------------------- load_death_data ---------------------------- *)
gukga_col == <<"guk", "ga">>
seongbyeol_col == <<"seong", "byeol">>
hangmok_col == <<"hang", "mok">>

\* df.columns of the wide table
df_columns(table) ==
    (IF table.has_gukga THEN <<gukga_col>> ELSE <<>>)
        \o <<seongbyeol_col, hangmok_col>> \o table.cols

\* if '국가' in df.columns:
\*     df = df[df['국가'].str.contains('한국|대한민국', na=False)]
death_country(table) ==
    IF \E i \in 1..Len(df_columns(table)) : df_columns(table)[i] = gukga_col
    THEN SelectSeq(table.rows,
                LAMBDA r : contains(r.gukga, hanguk)
                           \/ contains(r.gukga, daehanminguk))
    ELSE table.rows

\* year_cols = [c for c in df.columns
\*              if '년' in str(c) or str(c).strip().isdigit()]
is_year_col(c) == contains(c, <<"nyeon">>) \/ isdigit(strip(c))

year_cols(table) == SelectSeq(df_columns(table), is_year_col)

\* the cell of a wide row under column c
CellOf(table, r, c) ==
    IF c = gukga_col THEN r.gukga
    ELSE IF c = seongbyeol_col THEN r.seongbyeol
    ELSE IF c = hangmok_col THEN <<r.hangmok>>
    ELSE r.cells[CHOOSE j \in 1..Len(table.cols) : table.cols[j] = c]

\* df.melt(id_vars=['성별', '항목'], value_vars=year_cols,
\*         var_name='발생연도', value_name='사망률'):
\* one long row per (year column, wide row), column by column
melt(table, rows) ==
    LET yc == year_cols(table)
        n  == Len(rows)
    IN  [k \in 1..(Len(yc) * n) |->
            LET c == yc[((k - 1) \div n) + 1]
                r == rows[((k - 1) % n) + 1]
            IN  [seongbyeol     |-> r.seongbyeol,
                 hangmok        |-> r.hangmok,
                 balsaengyeondo |-> c,
                 samangryul     |-> CellOf(table, r, c)]]

\* .astype(str).str.replace(' 년', '').str.strip()
year_text(c) == strip(replace(c, <<" ", "nyeon">>))

\* df_melted = df_melted[df_melted['발생연도'].str.isnumeric()]; astype(int)
death_numeric_years(melted) ==
    LET named == [i \in 1..Len(melted) |->
                    [melted[i] EXCEPT
                        !.balsaengyeondo = year_text(melted[i].balsaengyeondo)]]
        kept == SelectSeq(named, LAMBDA r : isnumeric(r.balsaengyeondo))
    IN  [i \in 1..Len(kept) |->
            [kept[i] EXCEPT !.balsaengyeondo = int(kept[i].balsaengyeondo)]]

\* pd.to_numeric(cell, errors='coerce'): the number, or NaN
to_numeric(text) == IF isnumeric(text) THEN int(text) ELSE NaN

\* fillna left out
fillna_skipped(v) == v

\* .fillna(0)
fillna(v) == IF v = NaN THEN 0 ELSE v

\* df_melted['사망률'] = pd.to_numeric(..., errors='coerce').fillna(0)
coerce(text) == fillna(to_numeric(text))

\* rename(columns={'항목': '암종'}) and the numeric conversion
death_finish(rows) ==
    [i \in 1..Len(rows) |->
        [seongbyeol     |-> rows[i].seongbyeol,
         amjong         |-> rows[i].hangmok,
         balsaengyeondo |-> rows[i].balsaengyeondo,
         samangryul     |-> coerce(rows[i].samangryul)]]

load_death_data(file) ==
    IF ~file.exists THEN None
    ELSE IF ~read_csv_parses(file) THEN Raised
    ELSE DataFrame(death_finish(death_numeric_years(
            melt(file.table, death_country(file.table)))))

(* ----------------------------- draw_heatmap ----------------------------- *)
\* A cell value is the rational num/den (a mean need not be an integer).
Rat(n, d) == [num |-> n, den |-> d]
RatAdd(a, b) == Rat(a.num * b.den + b.num * a.den, a.den * b.den)
RatLeq(a, b) == a.num * b.den <= b.num * a.den
RatEq(a, b) == a.num * b.den = b.num * a.den

RECURSIVE SumVals(_, _, _)
SumVals(data, col, idx) ==
    IF idx = {} THEN 0
    ELSE LET i == CHOOSE j \in idx : TRUE
         IN  data[i][col] + SumVals(data, col, idx \ {i})

\* the rows of one (암종, 발생연도) group that hold a value
Group(data, col, c, y) ==
    {i \in 1..Len(data) : /\ data[i].amjong = c
                          /\ data[i].balsaengyeondo = y
                          /\ data[i][col] # NaN}

\* aggfunc of pivot_table (default 'mean'): the group's mean, NaN skipped
aggfunc(data, col, idx) == Rat(SumVals(data, col, idx), Cardinality(idx))

\* pivot_table(index='암종', columns='발생연도', values=value_col) drops
\* (dropna=True) the groups, rows and columns that hold no value at all
pivot_index(data, col) ==
    {data[i].amjong : i \in {j \in 1..Len(data) : data[j][col] # NaN}}

pivot_columns(data, col) ==
    {data[i].balsaengyeondo : i \in {j \in 1..Len(data) : data[j][col] # NaN}}

\* fillna(0) left out: the cell stays undefined
fill_value_missing == Rat(0, 0)

\* df_pivot.fillna(0)
fill_value == Rat(0, 1)

pivot_cell(data, col, c, y) ==
    IF Group(data, col, c, y) = {} THEN fill_value
    ELSE aggfunc(data, col, Group(data, col, c, y))

\* the years in increasing order (the pivot's column order)
RECURSIVE Ascending(_)
Ascending(S) ==
    IF S = {} THEN <<>>
    ELSE LET m == CHOOSE x \in S : \A z \in S : x <= z
         IN  <<m>> \o Ascending(S \ {m})

\* df_pivot.sum(axis=1)
RECURSIVE RowSum(_, _, _, _)
RowSum(data, col, c, ys) ==
    IF ys = {} THEN Rat(0, 1)
    ELSE LET y == CHOOSE z \in ys : TRUE
         IN  RatAdd(pivot_cell(data, col, c, y),
                    RowSum(data, col, c, ys \ {y}))

Orders(S) ==
    {f \in [1..Cardinality(S) -> S] :
        \A i, j \in 1..Cardinality(S) : i # j => f[i] # f[j]}

\* sort_values(ascending=True)
top_cancers_ascending(data, col) ==
    LET cs == pivot_index(data, col)
        ys == pivot_columns(data, col)
    IN  {f \in Orders(cs) :
            \A i \in 1..(Len(f) - 1) :
                RatLeq(RowSum(data, col, f[i], ys),
                       RowSum(data, col, f[i + 1], ys))}

\* .sort_values(ascending=False).index: every order with non-increasing
\* totals (the place of equal totals is the sort's choice)
top_cancers(data, col) ==
    LET cs == pivot_index(data, col)
        ys == pivot_columns(data, col)
    IN  {f \in Orders(cs) :
            \A i \in 1..(Len(f) - 1) :
                RatLeq(RowSum(data, col, f[i + 1], ys),
                       RowSum(data, col, f[i], ys))}

NoFig == [kind |-> "none", index |-> <<>>, columns |-> <<>>, cell |-> <<>>]

\* the matrices draw_heatmap may hand to sns.heatmap
draw_heatmap(data, col) ==
    {[kind    |-> "fig",
      index   |-> idx,
      columns |-> Ascending(pivot_columns(data, col)),
      cell    |-> [k \in pivot_index(data, col) \X pivot_columns(data, col)
                      |-> pivot_cell(data, col, k[1], k[2])]] :
        idx \in top_cancers(data, col)}

(* ----------------------------- module body ------------------------------ *)
VARIABLES inc_file, death_file, df_inc, df_death, data_option, value_col,
          df_male, df_female, fig_male, fig_female, pc, errors, warnings,
          draws

vars == <<inc_file, death_file, df_inc, df_death, data_option, value_col,
          df_male, df_female, fig_male, fig_female, pc, errors, warnings,
          draws>>

\* ["조발생률 (Incidence Rate)", "사망률 (Death Rate)"], word by word
options == {<<"jobalsaengryul", "(Incidence", "Rate)">>,
            <<"samangryul", "(Death", "Rate)">>}

startswith(option, word) == Len(option) > 0 /\ option[1] = word

Unset == [kind |-> "unset", rows |-> <<>>]

\* df_inc = load_incidence_data()
LoadIncidence ==
    /\ pc = "load_inc"
    /\ df_inc' = load_incidence_data(inc_file)
    /\ pc' = IF df_inc'.kind = "raise" THEN "raised" ELSE "load_death"
    /\ UNCHANGED <<inc_file, death_file, df_death, data_option, value_col,
                   df_male, df_female, fig_male, fig_female, errors,
                   warnings, draws>>

\* df_death = load_death_data()
LoadDeath ==
    /\ pc = "load_death"
    /\ df_death' = load_death_data(death_file)
    /\ pc' = IF df_death'.kind = "raise" THEN "raised" ELSE "select"
    /\ UNCHANGED <<inc_file, death_file, df_inc, data_option, value_col,
                   df_male, df_female, fig_male, fig_female, errors,
                   warnings, draws>>

\* data_option = st.selectbox(...)
Select ==
    /\ pc = "select"
    /\ \E o \in options : data_option' = o
    /\ pc' = "prepare"
    /\ UNCHANGED <<inc_file, death_file, df_inc, df_death, value_col,
                   df_male, df_female, fig_male, fig_female, errors,
                   warnings, draws>>

\* target_df[target_df['성별'] == '남자'], ... == '여자'
inc_male(rows) == SelectSeq(rows, LAMBDA r : r.seongbyeol = namja)
inc_female(rows) == SelectSeq(rows, LAMBDA r : r.seongbyeol = yeoja)

\* target_df[target_df['성별'].str.contains('남')], ... contains('여')
death_male(rows) == SelectSeq(rows, LAMBDA r : contains(r.seongbyeol, <<"nam">>))
death_female(rows) == SelectSeq(rows, LAMBDA r : contains(r.seongbyeol, <<"yeo">>))

\* the branches without their "is not None" tests
branch_unchecked(option, inc, death) ==
    IF startswith(option, "jobalsaengryul") THEN "jobalsaengryul"
    ELSE IF startswith(option, "samangryul") THEN "samangryul"
    ELSE "else"

\* if data_option.startswith("조발생률") and df_inc is not None: ...
\* elif data_option.startswith("사망률") and df_death is not None: ...
\* else: ...
branch(option, inc, death) ==
    IF startswith(option, "jobalsaengryul") /\ inc.kind # "None"
    THEN "jobalsaengryul"
    ELSE IF startswith(option, "samangryul") /\ death.kind # "None"
    THEN "samangryul"
    ELSE "else"

\* the data preparation; its else branch is st.error(...); st.stop()
Prepare ==
    /\ pc = "prepare"
    /\ LET b == branch(data_option, df_inc, df_death)
       IN  IF b = "jobalsaengryul"
           THEN /\ value_col' = "jobalsaengryul"
                /\ df_male' = inc_male(df_inc.rows)
                /\ df_female' = inc_female(df_inc.rows)
                /\ pc' = "male"
                /\ UNCHANGED errors
           ELSE IF b = "samangryul"
           THEN /\ value_col' = "samangryul"
                /\ df_male' = death_male(df_death.rows)
                /\ df_female' = death_female(df_death.rows)
                /\ pc' = "male"
                /\ UNCHANGED errors
           ELSE /\ errors' = errors + 1
                /\ pc' = "stopped"
                /\ UNCHANGED <<value_col, df_male, df_female>>
    /\ UNCHANGED <<inc_file, death_file, df_inc, df_death, data_option,
                   fig_male, fig_female, warnings, draws>>

\* with col1: if not df_male.empty: draw_heatmap(df_male, ...) else: warning
RenderMale ==
    /\ pc = "male"
    /\ IF Len(df_male) # 0
       THEN /\ \E fig \in draw_heatmap(df_male, value_col) : fig_male' = fig
            /\ draws' = draws + 1
            /\ UNCHANGED warnings
       ELSE /\ warnings' = warnings \cup {"male"}
            /\ UNCHANGED <<fig_male, draws>>
    /\ pc' = "female"
    /\ UNCHANGED <<inc_file, death_file, df_inc, df_death, data_option,
                   value_col, df_male, df_female, fig_female, errors>>

\* with col2: if not df_female.empty: draw_heatmap(df_female, ...) else: warning
RenderFemale ==
    /\ pc = "female"
    /\ IF Len(df_female) # 0
       THEN /\ \E fig \in draw_heatmap(df_female, value_col) : fig_female' = fig
            /\ draws' = draws + 1
            /\ UNCHANGED warnings
       ELSE /\ warnings' = warnings \cup {"female"}
            /\ UNCHANGED <<fig_female, draws>>
    /\ pc' = "done"
    /\ UNCHANGED <<inc_file, death_file, df_inc, df_death, data_option,
                   value_col, df_male, df_female, fig_male, errors>>

(* ------------------------------- inputs --------------------------------- *)
\* The files a run may find on disk.  A row of a generated table departs
\* from a plain row (numeric year, one sex, a cancer site, all ages, a
\* number) in at most one field.
Count(flags) == Cardinality({i \in 1..Len(flags) : flags[i]})

t1999 == <<"1", "9", "9", "9">>
t2000 == <<"2", "0", "0", "0">>
t1999_2023 == <<"1", "9", "9", "9", "-", "2", "0", "2", "3">>

CancerLabels == {"wi", "pye", "modeunam"}

IncRowSpace ==
    [balsaengyeondo : {t1999, t2000, t1999_2023},
     seongbyeol     : {namja, yeoja, namnyeo_jeonche},
     amjong         : CancerLabels,
     yeonryeonggun  : {yeonryeong_jeonche, "0-4se"},
     jobalsaengryul : {1, 2, NaN}]

\* the departures of a row from a plain one
IncOdd(r) ==
    Count(<<r.balsaengyeondo = t1999_2023,
            r.seongbyeol = namnyeo_jeonche,
            r.amjong = "modeunam",
            r.yeonryeonggun # yeonryeong_jeonche,
            r.jobalsaengryul = NaN>>)

IncRows ==
    {r \in IncRowSpace :
        \/ IncOdd(r) = 0
        \/ /\ IncOdd(r) = 1
           /\ r.balsaengyeondo # t2000
           /\ r.jobalsaengryul # 2}

ParseSets == SUBSET {encodings[1], encodings[2]}

SampleIncTable ==
    <<[balsaengyeondo |-> t1999, seongbyeol |-> namja, amjong |-> "wi",
       yeonryeonggun |-> yeonryeong_jeonche, jobalsaengryul |-> 1]>>

PlainIncFiles ==
    {[exists |-> FALSE, parses |-> {}, table |-> <<>>]}
    \cup {[exists |-> TRUE, parses |-> p, table |-> SampleIncTable] :
            p \in ParseSets}

IncFile(rows) ==
    [exists |-> TRUE, parses |-> {encodings[1]}, table |-> rows]

\* column names of the wide file: '1999', '2000 년', '2001년', '비고'
c1999 == <<"1", "9", "9", "9">>
c2000_nyeon == <<"2", "0", "0", "0", " ", "nyeon">>
c2001nyeon == <<"2", "0", "0", "1", "nyeon">>
bigo == <<"bi", "go">>

ColNames == <<c1999, c2000_nyeon, c2001nyeon, bigo>>

Headers ==
    {SelectSeq(ColNames, LAMBDA c : \E i \in S : ColNames[i] = c) :
        S \in {T \in SUBSET (1..Len(ColNames)) :
                 Cardinality(T) >= 1 /\ Cardinality(T) <= MaxCols}}

DeathRowSpace(n) ==
    [gukga      : {hanguk, daehanminguk, ilbon},
     seongbyeol : {namja, yeoja, namnyeo_jeonche, namyeo},
     hangmok    : CancerLabels,
     cells      : [1..n -> {<<"1">>, <<"x">>}]]

Unparsed(r) == {j \in 1..Len(r.cells) : r.cells[j] = <<"x">>}

DeathOdd(r) ==
    Count(<<r.gukga # hanguk,
            r.seongbyeol \notin {namja, yeoja},
            r.hangmok = "modeunam",
            Unparsed(r) # {}>>)

DeathRows(n, has_gukga) ==
    {r \in DeathRowSpace(n) :
        /\ DeathOdd(r) <= 1
        /\ Cardinality(Unparsed(r)) <= 1
        /\ (r.gukga # hanguk => r.seongbyeol = namja /\ r.hangmok = "wi")
        /\ (r.seongbyeol \notin {namja, yeoja} => r.hangmok = "wi")
        /\ (~has_gukga => r.gukga = hanguk)}

SampleDeathTable ==
    [has_gukga |-> TRUE, cols |-> <<c1999>>,
     rows |-> <<[gukga |-> hanguk, seongbyeol |-> namja, hangmok |-> "wi",
                 cells |-> <<<<"1">>>>]>>]

PlainDeathFiles ==
    {[exists |-> FALSE, parses |-> {},
      table |-> [has_gukga |-> FALSE, cols |-> <<>>, rows |-> <<>>]]}
    \cup {[exists |-> TRUE, parses |-> p, table |-> SampleDeathTable] :
            p \in ParseSets}

DeathFile(g, h, rows) ==
    [exists |-> TRUE, parses |-> {encodings[1]},
     table |-> [has_gukga |-> g, cols |-> h, rows |-> rows]]

\* the other file beside a generated one is absent
Beside(files) == {f \in files : ~f.exists}

\* One file is drawn from the generated tables while the other is absent, or
\* both are plain (absent, or the sample table under each set of encodings).
Init ==
    /\ \/ \E n \in 0..MaxRows : \E rows \in [1..n -> IncRows] :
            /\ inc_file = IncFile(rows)
            /\ death_file \in Beside(PlainDeathFiles)
       \/ \E g \in BOOLEAN : \E h \in Headers : \E n \in 0..MaxRows :
          \E rows \in [1..n -> DeathRows(Len(h), g)] :
            /\ inc_file \in Beside(PlainIncFiles)
            /\ death_file = DeathFile(g, h, rows)
       \/ /\ inc_file \in PlainIncFiles
          /\ death_file \in PlainDeathFiles
    /\ df_inc = Unset
    /\ df_death = Unset
    /\ data_option = <<>>
    /\ value_col = ""
    /\ df_male = <<>>
    /\ df_female = <<>>
    /\ fig_male = NoFig
    /\ fig_female = NoFig
    /\ pc = "load_inc"
    /\ errors = 0
    /\ warnings = {}
    /\ draws = 0

Next == \/ LoadIncidence
        \/ LoadDeath
        \/ Select
        \/ Prepare
        \/ RenderMale
        \/ RenderFemale

Spec == Init /\ [][Next]_vars

(* ------------------------------ properties ------------------------------ *)
Range(q) == {q[i] : i \in 1..Len(q)}

Sides == {"male", "female"}
SliceOf(side) == IF side = "male" THEN df_male ELSE df_female
FigOf(side) == IF side = "male" THEN fig_male ELSE fig_female

\* the rendering step of a side has run
Rendered(side) ==
    IF side = "male" THEN pc \in {"female", "done"} ELSE pc = "done"

\* the rows of a slice that hold a value
Valued(slice) == {i \in 1..Len(slice) : slice[i][value_col] # NaN}

\* the valued rows of a slice under (category, year)
RowsAt(slice, c, y) ==
    {i \in Valued(slice) : slice[i].amjong = c /\ slice[i].balsaengyeondo = y}

\* The spec's fixed axes, taken over the cancer sites and years of the inputs.
CanonicalVocabulary == <<"wi", "pye">>
YearRange == <<1999, 2000>>

Position(q, x) == CHOOSE i \in 1..Len(q) : q[i] = x

RECURSIVE FigRowTotal(_, _, _)
FigRowTotal(fig, c, n) ==
    IF n = 0 THEN Rat(0, 1)
    ELSE RatAdd(FigRowTotal(fig, c, n - 1), fig.cell[<<c, fig.columns[n]>>])

RatLess(a, b) == a.num * b.den < b.num * a.den

C2_CellIsSumOfDuplicates ==
    \A side \in Sides :
        Rendered(side) /\ FigOf(side).kind = "fig" =>
            \A k \in DOMAIN FigOf(side).cell :
                Cardinality(RowsAt(SliceOf(side), k[1], k[2])) >= 2
                => RatEq(FigOf(side).cell[k],
                         Rat(SumVals(SliceOf(side), value_col,
                                     RowsAt(SliceOf(side), k[1], k[2])), 1))

\* C4, as stated: a loader never raises, and returns the sentinel exactly
\* when the file is absent or no encoding of the list parses it.
C4_LoadersReturnSentinel ==
    /\ df_inc.kind # "raise"
    /\ df_death.kind # "raise"
    /\ pc # "raised"
    /\ df_inc.kind # "unset"
          => (df_inc.kind = "None"
                <=> ~inc_file.exists \/ inc_file.parses = {})
    /\ df_death.kind # "unset"
          => (df_death.kind = "None"
                <=> ~death_file.exists \/ death_file.parses = {})

\* a column name that is purely numeric, or numeric followed by the
\* year-unit marker, with or without whitespace around either part
NumericPart(c) ==
    LET t == strip(c)
    IN  IF Len(t) > 0 /\ t[Len(t)] = "nyeon"
        THEN strip(SubSeq(t, 1, Len(t) - 1))
        ELSE t

NamesYear(c) == isnumeric(NumericPart(c))

\* the number a cell text denotes, zero when it denotes none
Denoted(text) == IF isnumeric(text) THEN int(text) ELSE 0

\* the (retained wide row, column) pairs of the mortality file whose column
\* satisfies Names
Pairs(retained, Names(_)) ==
    {p \in (1..Len(retained)) \X (1..Len(death_file.table.cols)) :
        Names(death_file.table.cols[p[2]])}

\* the long row of such a pair: its year read from the column name by
\* YearOf, its value the number the cell denotes
LongRow(retained, p, YearOf(_)) ==
    [seongbyeol     |-> retained[p[1]].seongbyeol,
     amjong         |-> retained[p[1]].hangmok,
     balsaengyeondo |-> YearOf(death_file.table.cols[p[2]]),
     samangryul     |-> Denoted(retained[p[1]].cells[p[2]])]

\* the rows of a table are, one for one, the long rows of the pairs
OneForOne(rows, pairs, long) ==
    \A v \in Range(rows) \cup {long[p] : p \in pairs} :
        Cardinality({k \in 1..Len(rows) : rows[k] = v})
          = Cardinality({p \in pairs : long[p] = v})

ClaimedYear(c) == int(NumericPart(c))

\* C5, as stated: the long rows are, one for one, the pairs of a retained
\* wide row and a column whose name is numeric or numeric plus the year-unit
\* marker, each with the year parsed from the name and the value of the cell.
C5_OneLongRowPerYearColumn ==
    df_death.kind = "df" =>
        \A retained \in {death_country(death_file.table)} :
        \A pairs \in {Pairs(retained, NamesYear)} :
        \A long \in {[p \in pairs |-> LongRow(retained, p, ClaimedYear)]} :
            OneForOne(df_death.rows, pairs, long)

\* C6, as stated: no category label outside the comparison scope (the labels
\* of exclude_cancer, the only such table the code holds) leaves a loader or
\* labels a matrix row.
C6_NoUnmappedLabelLeaves ==
    /\ df_inc.kind = "df"
          => \A i \in 1..Len(df_inc.rows) :
                df_inc.rows[i].amjong \notin exclude_cancer
    /\ df_death.kind = "df"
          => \A i \in 1..Len(df_death.rows) :
                df_death.rows[i].amjong \notin exclude_cancer
    /\ \A side \in Sides :
          Range(FigOf(side).index) \cap exclude_cancer = {}

\* the data set of the selected metric
Selected == IF data_option[1] = "jobalsaengryul" THEN df_inc ELSE df_death
NotSelected == IF data_option[1] = "jobalsaengryul" THEN df_death ELSE df_inc

\* C7: once a metric is selected, if its loader returned None then
\* draw_heatmap is never called, the error is reported exactly once and the
\* run stops (it does not raise); if its data set is available the run goes
\* on to the rendering, with no error reported, whatever the other loader
\* returned.
C7_UnavailableStopsOnce ==
    data_option # <<>> =>
        IF Selected.kind = "None"
        THEN /\ draws = 0
             /\ fig_male = NoFig
             /\ fig_female = NoFig
             /\ \/ pc = "prepare" /\ errors = 0
                \/ pc = "stopped" /\ errors = 1
        ELSE /\ errors = 0
             /\ pc \in {"prepare", "male", "female", "done"}
             /\ pc = "done" => draws + Cardinality(warnings) = 2

\* the selected metric is unavailable while the other data set is loaded:
\* the run has stopped after one report, nothing drawn
C7_Witness ==
    /\ pc = "stopped"
    /\ Selected.kind = "None"
    /\ NotSelected.kind = "df"
    /\ errors = 1
    /\ draws = 0

\* the year the loader reads from a column name it keeps
KeptYear(c) == is_year_col(c) /\ isnumeric(year_text(c))
LoaderYear(c) == int(year_text(c))

RawAllAges(y, s, c) ==
    {i \in 1..Len(inc_file.table) :
        /\ inc_file.table[i].yeonryeonggun = yeonryeong_jeonche
        /\ isnumeric(inc_file.table[i].balsaengyeondo)
        /\ int(inc_file.table[i].balsaengyeondo) = y
        /\ inc_file.table[i].seongbyeol = s
        /\ inc_file.table[i].amjong = c}

Returned(y, s, c) ==
    {i \in 1..Len(df_inc.rows) :
        /\ df_inc.rows[i].balsaengyeondo = y
        /\ df_inc.rows[i].seongbyeol = s
        /\ df_inc.rows[i].amjong = c}

Triples == Range(YearRange) \X {namja, yeoja, namnyeo_jeonche} \X CancerLabels

\* C9, as stated: every returned incidence row is of the all-ages group, and
\* for every (year, sex, category) the returned rows are as many as the
\* all-ages raw rows.
C9_CountsForEveryTriple ==
    df_inc.kind = "df" =>
        /\ \A i \in 1..Len(df_inc.rows) :
              df_inc.rows[i].yeonryeonggun = yeonryeong_jeonche
        /\ \A t \in Triples :
              Cardinality(Returned(t[1], t[2], t[3]))
                = Cardinality(RawAllAges(t[1], t[2], t[3]))

\* C9, amended: when load_incidence_data has returned a table, every row of
\* it is of the all-ages group, and for every (year, sex, category) whose
\* category is not in exclude_cancer the returned rows are as many as the
\* all-ages raw rows; of an excluded category no row is returned.
C9_AllAgesRowsOfKeptCategories ==
    pc = "load_death" /\ df_inc.kind = "df" =>
        /\ \A i \in 1..Len(df_inc.rows) :
              df_inc.rows[i].yeonryeonggun = yeonryeong_jeonche
        /\ \A t \in Triples :
              Cardinality(Returned(t[1], t[2], t[3]))
                = IF t[3] \in exclude_cancer THEN 0
                  ELSE Cardinality(RawAllAges(t[1], t[2], t[3]))

\* a triple with an all-ages raw row and an age-stratified raw row, of which
\* one row is returned
C9_Witness ==
    /\ df_inc.kind = "df"
    /\ \E t \in Triples :
          /\ Cardinality(Returned(t[1], t[2], t[3])) = 1
          /\ Cardinality(RawAllAges(t[1], t[2], t[3])) = 1
          /\ \E i \in 1..Len(inc_file.table) :
                /\ inc_file.table[i].yeonryeonggun # yeonryeong_jeonche
                /\ inc_file.table[i].seongbyeol = t[2]
                /\ inc_file.table[i].amjong = t[3]
                /\ isnumeric(inc_file.table[i].balsaengyeondo)
                /\ int(inc_file.table[i].balsaengyeondo) = t[1]

\* C10, as stated: no row is in both slices, and a row whose sex label holds
\* both the male and the female token is in neither.
C10_SlicesDisjoint ==
    pc \in {"male", "female", "done"} =>
        /\ \A i \in 1..Len(df_male) : \A j \in 1..Len(df_female) :
              df_male[i] # df_female[j]
        /\ \A r \in Range(df_male) \cup Range(df_female) :
              ~(contains(r.seongbyeol, <<"nam">>)
                  /\ contains(r.seongbyeol, <<"yeo">>))

====
